---- MODULE Spec2Model ----
(***************************************************************************)
(* Model of src/Gui_Serial_Port.py: the SerialThread worker (run / stop)   *)
(* and the MainWindow session (start_serial, stop_serial, handle_new_data, *)
(* update_plot, closeEvent) with the Qt event loop that runs the slots.    *)
(*                                                                         *)
(* Two threads of control exist: the GUI thread, which runs every slot of  *)
(* MainWindow to completion from its event loop, and one QThread per       *)
(* SerialThread object, which executes run().  data_received is emitted in *)
(* the worker thread and its receiver lives in the GUI thread, so every    *)
(* emission is posted to the GUI thread's event queue (sigQueue).          *)
(***************************************************************************)
EXTENDS Integers, Sequences, FiniteSets, TLC

\* ------------------------------------------------------------------ bounds
MaxWorkers == 2   \* SerialThread objects created over the window's lifetime
MaxReads   == 2   \* readline() results followed; the device is silent after them

\* ------------------------------------------------------------- line decoder
Digits     == {"0", "1", "2", "3", "4", "5", "6", "7", "8", "9"}
Whitespace == {" ", "\n", "\r", "\t", "\f"}
Signs      == {"+", "-"}

\* str.strip() of line 29: leading and trailing whitespace removed.
RECURSIVE LStrip(_)
LStrip(s) == IF s # <<>> /\ Head(s) \in Whitespace THEN LStrip(Tail(s)) ELSE s

RECURSIVE RStrip(_)
RStrip(s) ==
  IF s # <<>> /\ s[Len(s)] \in Whitespace THEN RStrip(SubSeq(s, 1, Len(s) - 1)) ELSE s

PyStrip(s) == RStrip(LStrip(s))

\* First index j >= i of s at which no digit stands (Len(s) + 1 when none).
RECURSIVE DigitsEnd(_, _)
DigitsEnd(s, i) == IF i <= Len(s) /\ s[i] \in Digits THEN DigitsEnd(s, i + 1) ELSE i

DigitVal(c) ==
  CASE c = "0" -> 0 [] c = "1" -> 1 [] c = "2" -> 2 [] c = "3" -> 3 [] c = "4" -> 4
    [] c = "5" -> 5 [] c = "6" -> 6 [] c = "7" -> 7 [] c = "8" -> 8 [] c = "9" -> 9

RECURSIVE DigitsToNat(_)
DigitsToNat(s) ==
  IF s = <<>> THEN 0 ELSE 10 * DigitsToNat(SubSeq(s, 1, Len(s) - 1)) + DigitVal(s[Len(s)])

\* A float as sign, decimal mantissa and decimal exponent, normalised so that
\* equal floats have equal records (the mantissa carries no trailing zero).
RECURSIVE Normalise(_, _, _)
Normalise(neg, m, e) ==
  IF m = 0 THEN [neg |-> neg, m |-> 0, e |-> 0]
  ELSE IF m % 10 = 0 THEN Normalise(neg, m \div 10, e + 1)
  ELSE [neg |-> neg, m |-> m, e |-> e]

\* float(line) of line 32 on a stripped text: [ok |-> TRUE, val |-> the float],
\* or [ok |-> FALSE] where float() raises ValueError.  The text is scanned left
\* to right: sign, integer digits, ".", fraction digits, "e", sign, digits.
\* (float() also takes "inf", "nan" and "_" between digits; the device texts
\* modelled below hold none of these.)
PyFloat(s) ==
  LET n      == Len(s)
      i1     == IF n >= 1 /\ s[1] \in Signs THEN 2 ELSE 1
      neg    == n >= 1 /\ s[1] = "-"
      i2     == DigitsEnd(s, i1)
      hasDot == i2 <= n /\ s[i2] = "."
      i3     == IF hasDot THEN DigitsEnd(s, i2 + 1) ELSE i2
      intD   == SubSeq(s, i1, i2 - 1)
      fracD  == IF hasDot THEN SubSeq(s, i2 + 1, i3 - 1) ELSE <<>>
      hasExp == i3 <= n /\ s[i3] \in {"e", "E"}
      i4     == IF hasExp /\ i3 + 1 <= n /\ s[i3 + 1] \in Signs THEN i3 + 2 ELSE i3 + 1
      expNeg == hasExp /\ i3 + 1 <= n /\ s[i3 + 1] = "-"
      i5     == IF hasExp THEN DigitsEnd(s, i4) ELSE i3
      expD   == IF hasExp THEN SubSeq(s, i4, i5 - 1) ELSE <<>>
      expV   == IF expNeg THEN 0 - DigitsToNat(expD) ELSE DigitsToNat(expD)
      ok     == /\ Len(intD) + Len(fracD) > 0
                /\ hasExp => Len(expD) > 0
                /\ i5 = n + 1
  IN  IF ok
      THEN [ok |-> TRUE, val |-> Normalise(neg, DigitsToNat(intD \o fracD), expV - Len(fracD))]
      ELSE [ok |-> FALSE]

\* What one pass of the loop body does with the text readline() returned
\* (lines 29-35): strip, skip an empty text, float() it, emit or complain.
ClassifyNoStrip(raw) ==
  IF raw = <<>> THEN "none"
  ELSE IF PyFloat(PyStrip(raw)).ok THEN "sample"
  ELSE "invalid"

Classify(raw) ==
  LET line == PyStrip(raw)
  IN  IF line = <<>> THEN "none"
      ELSE IF PyFloat(line).ok THEN "sample"
      ELSE "invalid"

\* ------------------------------------------------------------------- state
VARIABLES
  gui,            \* where the GUI thread is: "idle" (event loop), "dialog" (modal
                  \* QMessageBox of line 103), "wait" / "wait_close" (inside
                  \* SerialThread.stop at self.wait(), line 43, called from the
                  \* Stop button / from closeEvent), "closed" (window closed),
                  \* "choosing" (modal QFileDialog of line 124), "msgbox" (modal
                  \* QMessageBox of save_data, line 131, 138 or 140)
  save_directory, \* MainWindow.save_directory: "None", or "dir" once one is chosen
  hnd,            \* <<>>, or <<value>> while handle_new_data is between 117 and 118
  serial_thread,  \* MainWindow.serial_thread: None, or the worker it holds
  timerActive,    \* MainWindow.timer is running
  data,           \* MainWindow.data
  plot_data,      \* MainWindow.plot_data
  curve,          \* the series last given to plot_curve.setData
  sigQueue,       \* data_received emissions posted to the GUI thread, not yet run
  workers,        \* SerialThread objects: pc of run(), self.running, self.ser
  nWorkers,       \* SerialThread objects created so far
  ioLog,          \* history: what each readline() of line 29 produced, in order
  diag,           \* history: the lines printed by run() (lines 24, 35, 37)
  emitted,        \* history: every data_received.emit of line 33, in order
  handedUpTo,     \* history: how many samples of plot_data drains have handed over
  rehanded,       \* history: some drain handed over a sample again
  pubAtDrain,     \* history: Len(data) when update_plot last ran
  newAtDrain,     \* history: samples published between the last two update_plot runs
  stopReturned,   \* history: workers whose stop() call has returned
  startNoop       \* history: some start_serial found a worker held and did nothing

vars == <<gui, save_directory, hnd, serial_thread, timerActive, data, plot_data, curve, sigQueue,
          workers, nWorkers, ioLog, diag, emitted, handedUpTo, rehanded, pubAtDrain, newAtDrain,
          stopReturned, startNoop>>

None      == 0
WorkerIds == 1 .. MaxWorkers

\* The texts the device sends.  readline() returns up to and including the
\* terminator, or what arrived before the 1 s timeout (no terminator).
DeviceLines ==
  { <<"2", "3", ".", "5", "\n">>,
    <<" ", "-", "1", ".", "0", " ">>,
    <<"a", "b", "c", "\n">>,
    <<"\n">> }

\* readline() at its timeout with nothing received: b"".
Timeout == <<>>

\* SerialThread.__init__, lines 12-17, followed by QThread.start(): the thread
\* is about to execute line 20.
NewWorker == [pc |-> "l20", running |-> FALSE, ser |-> "None"]

NoWorker == [pc |-> "none", running |-> FALSE, ser |-> "None"]

Init ==
  /\ gui = "idle"
  /\ save_directory = "None"
  /\ hnd = <<>>
  /\ serial_thread = None
  /\ timerActive = FALSE
  /\ data = <<>>
  /\ plot_data = <<>>
  /\ curve = <<>>
  /\ sigQueue = <<>>
  /\ workers = [w \in WorkerIds |-> NoWorker]
  /\ nWorkers = 0
  /\ ioLog = <<>>
  /\ diag = <<>>
  /\ emitted = <<>>
  /\ handedUpTo = 0
  /\ rehanded = FALSE
  /\ pubAtDrain = 0
  /\ newAtDrain = 0
  /\ stopReturned = {}
  /\ startNoop = FALSE

guiVars    == <<gui, save_directory, hnd, serial_thread, timerActive, nWorkers,
               stopReturned, startNoop>>
seriesVars == <<data, plot_data>>
plotVars   == <<curve, handedUpTo, rehanded, pubAtDrain, newAtDrain>>
histVars   == <<ioLog, diag, emitted>>

\* ---------------------------------------------------------- SerialThread.run
\* Line 20: self.running = True.
RunSetRunning(w) ==
  /\ workers[w].pc = "l20"
  /\ workers' = [workers EXCEPT ![w].running = TRUE, ![w].pc = "l22"]
  /\ UNCHANGED <<guiVars, seriesVars, plotVars, histVars, sigQueue>>

\* Where run() continues when serial.Serial raises (lines 23-25: print, return).
AfterOpenErrorIntoLoop == "l27"

AfterOpenError == "done"

\* Lines 21-25: serial.Serial(port, baudrate, timeout=1) succeeds or raises.
RunOpen(w) ==
  /\ workers[w].pc = "l22"
  /\ \/ /\ workers' = [workers EXCEPT ![w].ser = "open", ![w].pc = "l27"]
        /\ UNCHANGED diag
     \/ /\ workers' = [workers EXCEPT ![w].pc = AfterOpenError]
        /\ diag' = Append(diag, [w |-> w, kind |-> "open_error", text |-> <<>>])
  /\ UNCHANGED <<guiVars, seriesVars, plotVars, ioLog, emitted, sigQueue>>

\* Line 27: while self.running.
RunLoopTest(w) ==
  /\ workers[w].pc = "l27"
  /\ workers' = [workers EXCEPT ![w].pc = IF workers[w].running THEN "l29" ELSE "l38"]
  /\ UNCHANGED <<guiVars, seriesVars, plotVars, histVars, sigQueue>>

\* Where run() continues after the handler of line 36-37 (print, next iteration).
AfterReadErrorLeavesLoop == "l38"

AfterReadError == "l27"

\* Lines 29-35 with readline() returning raw (a text, or b"" at the timeout).
RunBodyLine(w, raw) ==
  /\ workers[w].pc = "l29"
  /\ Len(ioLog) < MaxReads
  /\ ioLog' = Append(ioLog, [w |-> w, kind |-> "line", text |-> raw])
  /\ LET c == Classify(raw)
         s == [from |-> w, val |-> PyFloat(PyStrip(raw)).val]
     IN  /\ sigQueue' = IF c = "sample" THEN Append(sigQueue, s) ELSE sigQueue
         /\ emitted'  = IF c = "sample" THEN Append(emitted, s) ELSE emitted
         /\ diag' = IF c = "invalid"
                    THEN Append(diag, [w |-> w, kind |-> "invalid_data", text |-> PyStrip(raw)])
                    ELSE diag
  /\ workers' = [workers EXCEPT ![w].pc = "l27"]
  /\ UNCHANGED <<guiVars, seriesVars, plotVars>>

\* Line 29 at its timeout once the device has sent all it sends: nothing read.
RunBodySilent(w) ==
  /\ workers[w].pc = "l29"
  /\ Len(ioLog) = MaxReads
  /\ workers' = [workers EXCEPT ![w].pc = "l27"]
  /\ UNCHANGED <<guiVars, seriesVars, plotVars, histVars, sigQueue>>

\* Line 29 raising: readline() fails (SerialException), or the bytes read are
\* not UTF-8 (UnicodeDecodeError); lines 36-37 print and the loop goes on.
RunBodyFault(w) ==
  /\ workers[w].pc = "l29"
  /\ Len(ioLog) < MaxReads
  /\ ioLog' = Append(ioLog, [w |-> w, kind |-> "fault", text |-> <<>>])
  /\ diag' = Append(diag, [w |-> w, kind |-> "read_error", text |-> <<>>])
  /\ workers' = [workers EXCEPT ![w].pc = AfterReadError]
  /\ UNCHANGED <<guiVars, seriesVars, plotVars, emitted, sigQueue>>

\* self.ser after lines 38-39 when it was open.
SerAfterCloseLeak == "open"

SerAfterClose == "closed"

\* Lines 38-39: if self.ser and self.ser.is_open: self.ser.close(); run() ends.
RunClose(w) ==
  /\ workers[w].pc = "l38"
  /\ workers' = [workers EXCEPT
                   ![w].ser = IF workers[w].ser = "open" THEN SerAfterClose ELSE @,
                   ![w].pc = "done"]
  /\ UNCHANGED <<guiVars, seriesVars, plotVars, histVars, sigQueue>>

WorkerNext ==
  \E w \in WorkerIds :
    \/ RunSetRunning(w)
    \/ RunOpen(w)
    \/ RunLoopTest(w)
    \/ \E raw \in DeviceLines \cup {Timeout} : RunBodyLine(w, raw)
    \/ RunBodySilent(w)
    \/ RunBodyFault(w)
    \/ RunClose(w)

\* ------------------------------------------------------- GUI thread (slots)
\* The GUI thread takes the next event (a click, a timer tick, a posted
\* data_received call) only from its event loop, which runs at top level and
\* inside the modal boxes, and never while a slot is still executing.
LoopRuns == gui \in {"idle", "dialog", "choosing", "msgbox"}

LoopTakesEventAnyTime == LoopRuns

LoopTakesEvent == LoopRuns /\ hnd = <<>>

\* Clicks reach the main window only outside the modal dialog.
TakesClick == LoopTakesEvent /\ gui = "idle"

\* Line 98: if self.serial_thread is None.
MayStartAlways == TRUE

MayStart == serial_thread = None

\* The timer after the branch of lines 102-104: the return of line 104 comes
\* before line 108, so the timer is left as it was.
TimerStartedAnyway == TRUE

TimerAfterNoPorts == timerActive

\* start_serial, lines 96-108 (ports: whether comports() lists a device).
StartSerial ==
  /\ TakesClick
  /\ \/ /\ MayStart
        /\ nWorkers < MaxWorkers
        /\ nWorkers' = nWorkers + 1
        /\ workers' = [workers EXCEPT ![nWorkers + 1] = NewWorker]
        /\ serial_thread' = nWorkers + 1
        /\ timerActive' = TRUE
        /\ UNCHANGED <<gui, startNoop>>
     \/ /\ MayStart
        /\ gui' = "dialog"
        /\ timerActive' = TimerAfterNoPorts
        /\ UNCHANGED <<workers, nWorkers, serial_thread, startNoop>>
     \/ /\ ~MayStart
        /\ startNoop' = TRUE
        /\ UNCHANGED <<gui, workers, nWorkers, serial_thread, timerActive>>
  /\ UNCHANGED <<save_directory, hnd, stopReturned, seriesVars, plotVars, histVars,
                 sigQueue>>

\* The user dismisses the "No serial ports found!" box; line 104 returns.
DismissDialog ==
  /\ gui = "dialog"
  /\ hnd = <<>>
  /\ gui' = "idle"
  /\ UNCHANGED <<save_directory, hnd, serial_thread, timerActive, nWorkers,
                 stopReturned, startNoop, workers, seriesVars, plotVars, histVars,
                 sigQueue>>

\* stop_serial line 111 and SerialThread.stop line 42; the GUI thread then
\* blocks in self.wait() (line 43).  fromClose: called by closeEvent, line 143.
StopSerialCall(fromClose) ==
  /\ TakesClick
  /\ IF serial_thread # None
     THEN /\ workers' = [workers EXCEPT ![serial_thread].running = FALSE]
          /\ gui' = IF fromClose THEN "wait_close" ELSE "wait"
     ELSE /\ gui' = IF fromClose THEN "closed" ELSE gui
          /\ UNCHANGED workers
  /\ UNCHANGED <<save_directory, hnd, serial_thread, timerActive, nWorkers,
                 stopReturned, startNoop, seriesVars, plotVars, histVars, sigQueue>>

StopSerial == StopSerialCall(FALSE)

\* closeEvent, lines 142-144.
CloseEvent == StopSerialCall(TRUE)

\* QThread.wait() of line 43 returns once run() has returned.
WaitReturnsAtOnce(w) == TRUE

WaitReturns(w) == workers[w].pc = "done"

\* Whether the timer runs after line 114, self.timer.stop().
TimerLeftRunning == timerActive

TimerAfterStop == FALSE

\* Line 43 returns, then lines 113-114 (and event.accept() for closeEvent).
StopReturn ==
  /\ gui \in {"wait", "wait_close"}
  /\ WaitReturns(serial_thread)
  /\ stopReturned' = stopReturned \cup {serial_thread}
  /\ serial_thread' = None
  /\ timerActive' = TimerAfterStop
  /\ gui' = IF gui = "wait_close" THEN "closed" ELSE "idle"
  /\ UNCHANGED <<save_directory, hnd, nWorkers, startNoop, workers, seriesVars,
                 plotVars, histVars, sigQueue>>

\* The posted call the event loop runs next, and what stays posted: Qt runs
\* the calls posted to one receiver in the order they were posted.
TakePostedLast ==
  [item |-> sigQueue[Len(sigQueue)], rest |-> SubSeq(sigQueue, 1, Len(sigQueue) - 1)]

TakePosted == [item |-> Head(sigQueue), rest |-> Tail(sigQueue)]

\* self.data after line 117: value appended at the end.
DataAfterPublishFront(value) == <<value>> \o data

DataAfterPublish(value) == Append(data, value)

\* handle_new_data line 117, run for the oldest posted emission.
HandleNewData ==
  /\ LoopTakesEvent
  /\ sigQueue # <<>>
  /\ data' = DataAfterPublish(TakePosted.item.val)
  /\ hnd' = <<TakePosted.item.val>>
  /\ sigQueue' = TakePosted.rest
  /\ UNCHANGED <<gui, save_directory, serial_thread, timerActive, nWorkers,
                 stopReturned, startNoop, workers, plot_data, plotVars, histVars>>

\* handle_new_data line 118; the slot returns to the event loop.
HandleNewDataEnd ==
  /\ hnd # <<>>
  /\ plot_data' = Append(plot_data, hnd[1])
  /\ hnd' = <<>>
  /\ UNCHANGED <<gui, save_directory, serial_thread, timerActive, nWorkers,
                 stopReturned, startNoop, workers, data, plotVars, histVars, sigQueue>>

\* The first sample of plot_data that update_plot hands to setData: line 121
\* passes the whole list, which nothing ever empties.
DrainFromNew == handedUpTo + 1

DrainFrom == 1

\* update_plot, lines 120-121, run on a tick of the 100 ms timer.
UpdatePlot ==
  /\ LoopTakesEvent
  /\ timerActive
  /\ curve' = SubSeq(plot_data, DrainFrom, Len(plot_data))
  /\ rehanded' = (rehanded \/ (DrainFrom <= handedUpTo /\ DrainFrom <= Len(plot_data)))
  /\ handedUpTo' = Len(plot_data)
  /\ pubAtDrain' = Len(data)
  /\ newAtDrain' = Len(plot_data) - handedUpTo
  /\ UNCHANGED <<guiVars, workers, seriesVars, histVars, sigQueue>>

\* choose_directory line 124: the modal directory chooser opens.
ChooseDirectory ==
  /\ TakesClick
  /\ gui' = "choosing"
  /\ UNCHANGED <<save_directory, hnd, serial_thread, timerActive, nWorkers,
                 stopReturned, startNoop, workers, seriesVars, plotVars, histVars,
                 sigQueue>>

\* choose_directory lines 124-127: the chooser returns a directory (picked) or
\* "" (cancelled); only a directory is stored.
ChooseDirectoryEnd(picked) ==
  /\ gui = "choosing"
  /\ hnd = <<>>
  /\ gui' = "idle"
  /\ save_directory' = IF picked THEN "dir" ELSE save_directory
  /\ UNCHANGED <<hnd, serial_thread, timerActive, nWorkers, stopReturned, startNoop,
                 workers, seriesVars, plotVars, histVars, sigQueue>>

\* save_data lines 129-140: without a directory the warning box; with one the
\* values of self.data are written, one per line, to sensor_data.txt (the file
\* is outside the program's state) and the success box or, when the write
\* raises, the error box is shown.  self.data is only read.
SaveData ==
  /\ TakesClick
  /\ gui' = "msgbox"
  /\ UNCHANGED <<save_directory, hnd, serial_thread, timerActive, nWorkers,
                 stopReturned, startNoop, workers, seriesVars, plotVars, histVars,
                 sigQueue>>

\* The user dismisses the box of save_data; save_data returns.
SaveDataEnd ==
  /\ gui = "msgbox"
  /\ hnd = <<>>
  /\ gui' = "idle"
  /\ UNCHANGED <<save_directory, hnd, serial_thread, timerActive, nWorkers,
                 stopReturned, startNoop, workers, seriesVars, plotVars, histVars,
                 sigQueue>>

GuiNext ==
  \/ StartSerial
  \/ DismissDialog
  \/ StopSerial
  \/ CloseEvent
  \/ StopReturn
  \/ HandleNewData
  \/ HandleNewDataEnd
  \/ UpdatePlot
  \/ ChooseDirectory
  \/ \E picked \in BOOLEAN : ChooseDirectoryEnd(picked)
  \/ SaveData
  \/ SaveDataEnd

Next == WorkerNext \/ GuiNext

Spec == Init /\ [][Next]_vars

\* The scheduler runs a thread that can run: every step of run() is eventually
\* taken (readline() returns within its 1 s timeout), and wait() returns once
\* the thread has finished.
LiveSpec == Spec /\ WF_vars(WorkerNext) /\ WF_vars(StopReturn)

\* ================================================================== claims
Live(w)       == workers[w].pc \notin {"none", "done"}
Reading(w)    == workers[w].pc \in {"l27", "l29"}
StopWaiting   == gui \in {"wait", "wait_close"}
LogOf(w)      == SelectSeq(ioLog, LAMBDA x : x.w = w)
EmittedBy(w)  == SelectSeq(emitted, LAMBDA x : x.from = w)
DiagOf(w)     == SelectSeq(diag, LAMBDA x : x.w = w)

\* C1: under fair scheduling every stop() in progress returns: whenever the GUI
\* thread is inside stop() waiting for the worker, it later leaves that wait,
\* whatever point of run() the worker had reached when stop() was called.
C1_StopReturns == StopWaiting ~> ~StopWaiting

\* C2: whenever a stop() call has returned, the worker it stopped has finished
\* run() and holds no open device handle.
C2_StopReturnedMeansFinished ==
  \A w \in stopReturned : workers[w].pc = "done" /\ workers[w].ser # "open"

\* C2 witness: stop() has returned for a worker that had opened the device and
\* read from it.
C2_Witness ==
  \E w \in stopReturned : workers[w].ser = "closed" /\ LogOf(w) # <<>>

\* C3: at most one worker thread is live and at most one device handle is open,
\* and a live worker is always the one the session holds, so a start() that
\* finds a worker held has added none.
C3_AtMostOneWorker ==
  /\ Cardinality({w \in WorkerIds : Live(w)}) <= 1
  /\ Cardinality({w \in WorkerIds : workers[w].ser = "open"}) <= 1
  /\ \A w \in WorkerIds : Live(w) \/ workers[w].ser = "open" => serial_thread = w

\* C3 witness: start_serial was called while a worker was held, a second worker
\* was created later, and that one has the device open.
C3_Witness ==
  /\ startNoop
  /\ nWorkers = 2
  /\ workers[2].ser = "open"

C5_DrainSeesBothOrNeither == [][UpdatePlot => data = plot_data /\ curve' = data]_vars

\* C5 witness: a drain ran after a publish, and another publish is half done
\* (in CollectedSeries, not yet in the batch).
C5_Witness ==
  /\ handedUpTo > 0
  /\ curve # <<>>
  /\ hnd # <<>>
  /\ Len(data) = Len(plot_data) + 1

\* A floating-point literal, stated by its shape: an optional sign, then digits
\* with an optional "." and optional further digits, or "." and digits, then
\* an optional exponent ("e" or "E", an optional sign, digits).
AllDigits(t)  == \A i \in 1 .. Len(t) : t[i] \in Digits
IsMantissa(t) ==
  \E k \in 0 .. Len(t) :
    LET ip == SubSeq(t, 1, k)
        rs == SubSeq(t, k + 1, Len(t))
    IN  /\ AllDigits(ip)
        /\ \/ k > 0 /\ rs = <<>>
           \/ rs # <<>> /\ Head(rs) = "." /\ AllDigits(Tail(rs)) /\ k + Len(rs) > 1
IsExponent(t) ==
  \/ t = <<>>
  \/ /\ Len(t) >= 2
     /\ t[1] \in {"e", "E"}
     /\ LET d == IF t[2] \in Signs THEN SubSeq(t, 3, Len(t)) ELSE SubSeq(t, 2, Len(t))
        IN  d # <<>> /\ AllDigits(d)
IsFloatLiteral(t) ==
  \E a \in 0 .. 1, b \in 0 .. Len(t) :
    /\ a <= b
    /\ a = 1 => t[1] \in Signs
    /\ IsMantissa(SubSeq(t, a + 1, b))
    /\ IsExponent(SubSeq(t, b + 1, Len(t)))

\* The texts a read can return, by what their trimmed text is.
ReadTexts    == DeviceLines \cup {Timeout}
ValidTexts   == {r \in ReadTexts : IsFloatLiteral(PyStrip(r))}
EmptyTexts   == {r \in ReadTexts : PyStrip(r) = <<>>}
BadTexts     == (ReadTexts \ ValidTexts) \ EmptyTexts
ValueOf      == [r \in ValidTexts |-> PyFloat(PyStrip(r)).val]
TrimOf       == [r \in ReadTexts |-> PyStrip(r)]

\* The entries of the read log by what their trimmed text is.
IsValidLine(x)  == x.kind = "line" /\ x.text \in ValidTexts
IsBadLine(x)    == x.kind = "line" /\ x.text \in BadTexts
IsEmptyLine(x)  == x.kind = "line" /\ x.text \in EmptyTexts
ValidLines      == SelectSeq(ioLog, IsValidLine)
BadLines        == SelectSeq(ioLog, IsBadLine)
InvalidDiag     == SelectSeq(diag, LAMBDA d : d.kind = "invalid_data")
AllDelivered    == sigQueue = <<>> /\ hnd = <<>>

\* C6: once every publish is delivered, CollectedSeries is the values of the
\* validly decoded lines, one element per line, in the order the lines were read.
C6_SeriesInReadOrder ==
  AllDelivered =>
    data = [i \in 1 .. Len(ValidLines) |-> ValueOf[ValidLines[i].text]]

\* C6 witness: two different samples, read in two different runs, are both
\* delivered.
C6_Witness ==
  /\ AllDelivered
  /\ Len(data) = 2
  /\ data[1] # data[2]
  /\ emitted[1].from # emitted[2].from

\* C7: the lines read with a literal as trimmed text are, one for one and in
\* order, the samples emitted; those with another non-empty trimmed text are,
\* one for one and in order, the 'invalid data' diagnostics; a line whose
\* trimmed text is empty (a timeout included) adds to neither.
C7_ClassifiedByTrimmedText ==
  /\ [i \in 1 .. Len(emitted) |-> emitted[i].from]
       = [i \in 1 .. Len(ValidLines) |-> ValidLines[i].w]
  /\ [i \in 1 .. Len(InvalidDiag) |-> <<InvalidDiag[i].w, InvalidDiag[i].text>>]
       = [i \in 1 .. Len(BadLines) |-> <<BadLines[i].w, TrimOf[BadLines[i].text]>>]

\* C7 witness: a non-literal and then a literal have been read, the literal
\* with blanks around it.
C7_Witness ==
  /\ Len(ioLog) >= 2
  /\ IsBadLine(ioLog[Len(ioLog) - 1])
  /\ IsValidLine(ioLog[Len(ioLog)])
  /\ TrimOf[ioLog[Len(ioLog)].text] # ioLog[Len(ioLog)].text
  /\ Len(emitted) = 1
  /\ Len(InvalidDiag) = 1

\* C8: a worker leaves the read loop only while a stop() call on it is in
\* progress; a rejected line or a read fault never takes it out of the loop.
C8_LeavesLoopOnlyOnStop ==
  [][\A w \in WorkerIds :
       Reading(w) /\ workers'[w].pc \notin {"l27", "l29"}
         => StopWaiting /\ serial_thread = w]_vars

\* C8 witness: a worker is still in the read loop, with no stop() requested,
\* after a read fault and a rejected line.
C8_Witness ==
  \E w \in WorkerIds :
    /\ Reading(w)
    /\ ~StopWaiting
    /\ \E i \in 1 .. Len(ioLog) : ioLog[i].w = w /\ ioLog[i].kind = "fault"
    /\ \E i \in 1 .. Len(ioLog) : ioLog[i].w = w /\ IsBadLine(ioLog[i])

\* C9: a worker thread that has terminated holds no open device handle.
C9_NoHandleLeftOpen ==
  \A w \in WorkerIds : workers[w].pc = "done" => workers[w].ser # "open"

\* C9 witness: a worker has terminated after a read fault, its handle closed.
C9_Witness ==
  \E w \in WorkerIds :
    /\ workers[w].pc = "done"
    /\ workers[w].ser = "closed"
    /\ \E i \in 1 .. Len(ioLog) : ioLog[i].w = w /\ ioLog[i].kind # "line"

\* C10: a worker whose open failed has reported exactly that error, has
\* terminated, and has neither read from the device nor emitted a sample.
OpenFailed(w) == workers[w].pc \notin {"none", "l20", "l22"} /\ workers[w].ser = "None"
C10_OpenFailureGoesToClosed ==
  \A w \in WorkerIds :
    OpenFailed(w) =>
      /\ workers[w].pc = "done"
      /\ LogOf(w) = <<>>
      /\ EmittedBy(w) = <<>>
      /\ DiagOf(w) = <<[w |-> w, kind |-> "open_error", text |-> <<>>]>>

\* C10 witness: a worker failed to open the device in a session in which
\* another worker had read and emitted a sample.
C10_Witness ==
  \E w \in WorkerIds : OpenFailed(w) /\ emitted # <<>>

\* C11: after a device-open failure the session can be started again: a
\* start_serial call made once the last worker has failed to open, whether or
\* not stop_serial was called since, creates a new worker (which will attempt
\* the open), or reports that no port is listed.
C11_RestartsAfterOpenFailure ==
  [][(/\ StartSerial
      /\ nWorkers >= 1
      /\ nWorkers < MaxWorkers
      /\ OpenFailed(nWorkers))
        => (nWorkers' = nWorkers + 1 \/ gui' = "dialog")]_vars

\* C12: a start_serial call that finds no port listed shows the "No serial
\* ports found!" box and changes nothing else: no worker is created, no device
\* is opened, the timer is not started and CollectedSeries is as it was; while
\* the box is up the session is idle.
SessionIdle ==
  /\ serial_thread = None
  /\ ~timerActive
  /\ \A w \in WorkerIds : ~Live(w) /\ workers[w].ser # "open"
C12_NoPortsChangesNothing ==
  /\ [](gui = "dialog" => SessionIdle)
  /\ [][gui # "dialog" /\ gui' = "dialog"
          => /\ SessionIdle
             /\ UNCHANGED <<serial_thread, timerActive, workers, nWorkers, data,
                            plot_data, curve, sigQueue, ioLog, diag, emitted>>]_vars

\* C12 witness: the box is up in a session that had collected a sample in an
\* earlier run and could still have created a worker.
C12_Witness ==
  /\ gui = "dialog"
  /\ data # <<>>
  /\ stopReturned # {}
  /\ nWorkers < MaxWorkers

\* The last n elements of t.
LastN(t, n) == SubSeq(t, Len(t) - n + 1, Len(t))

IsPrefix(s, t) == Len(s) <= Len(t) /\ SubSeq(t, 1, Len(s)) = s

\* C14: CollectedSeries is append-only: across every step (start, publish,
\* drain, stop, restart, choosing a directory, save) the old value of self.data
\* is a prefix of its new value.
C14_SeriesAppendOnly == [][IsPrefix(data, data')]_vars

\* C14 witness: save_data has written the series to the chosen directory and
\* shows its box, in a session restarted once, whose two runs each published a
\* sample.
C14_Witness ==
  /\ gui = "msgbox"
  /\ save_directory = "dir"
  /\ nWorkers = 2
  /\ Len(data) = 2
  /\ data[1] # data[2]
  /\ curve = data

\* stop_serial has completed and start_serial has not created a worker since.
Stopped == serial_thread = None /\ stopReturned # {}

\* C15 (as stated): once stop() has returned CollectedSeries is quiescent: no
\* step appends to self.data until the next start().
C15_QuietAfterStop == [][Stopped => data' = data]_vars

\* C15 (amended): once stop() has returned no worker emits a sample any more;
\* self.data still grows, but only by the samples the stopped workers emitted
\* before stop() returned and that are still posted to the GUI thread, taken
\* in the order they were posted; with none posted it stays unchanged until
\* the next start().
C15_OnlyPostedSamplesAfterStop ==
  [][Stopped =>
       /\ emitted' = emitted
       /\ \A i \in 1..Len(sigQueue) : sigQueue[i].from \in stopReturned
       /\ data' # data => /\ sigQueue # <<>>
                          /\ data' = Append(data, Head(sigQueue).val)
                          /\ sigQueue' = Tail(sigQueue)
       /\ sigQueue = <<>> => data' = data]_vars

\* C15 witness: stop() has returned and handle_new_data is running for a sample
\* the stopped worker emitted.
C15_Witness ==
  /\ Stopped
  /\ gui = "idle"
  /\ hnd # <<>>
  /\ Len(data) = Len(emitted)

\* C16: after the session is stopped and every emitted sample is appended, the
\* series last presented by update_plot equals self.data.
C16_StoppedPlotShowsSeries ==
  (Stopped /\ gui = "idle" /\ AllDelivered) => curve = data

\* C17: the timer is active exactly while the session holds a worker handle:
\* never while Idle, and not after any stop().
C17_TimerIffWorkerHeld == timerActive <=> (serial_thread # None)

\* C17 witness: a second run was started and stopped; the session is Idle
\* again with the timer stopped.
C17_Witness ==
  /\ gui = "idle"
  /\ Cardinality(stopReturned) = 2
  /\ serial_thread = None
  /\ ~timerActive

====
